---- MODULE Spec2Model ----
(***************************************************************************)
(* youtube-music-control: a command-line client that fetches the server's  *)
(* discovery document, resolves an HTTP method, shapes the request body    *)
(* from the data argument, authenticates and dispatches one request.       *)
(*                                                                         *)
(* Two programs are modelled: the packaged module                          *)
(* youtube_music_control/__main__.py (impl = "package", the console-script *)
(* entry point) and the older top-level script main.py (impl = "script").  *)
(*                                                                         *)
(* Text is a sequence of one-character strings; an optional value (Python  *)
(* None or a value) is a sequence of length 0 or 1; a Python dict is a     *)
(* sequence of entries in insertion order.                                 *)
(***************************************************************************)
EXTENDS Integers, Sequences, FiniteSets, TLC

\* ------------------------------------------------------------------ bounds
\* Paths in one discovery document.
MaxPaths == 2

\* ------------------------------------------------------------ optional values
None == <<>>
Some(v) == <<v>>
Get(o) == o[1]

\* ------------------------------------------------------------------ text
SLASH == "/"
InfoSuffix == <<"-", "i", "n", "f", "o">>

startswith(s, p) ==
    /\ Len(p) <= Len(s)
    /\ SubSeq(s, 1, Len(p)) = p

endswith(s, suf) ==
    /\ Len(suf) <= Len(s)
    /\ SubSeq(s, Len(s) - Len(suf) + 1, Len(s)) = suf

\* s[n:]
DropPrefix(s, n) == SubSeq(s, n + 1, Len(s))

RECURSIVE lstrip(_)
lstrip(s) == IF s # <<>> /\ Head(s) = SLASH THEN lstrip(Tail(s)) ELSE s

RECURSIVE rstrip(_)
rstrip(s) ==
    IF s # <<>> /\ s[Len(s)] = SLASH THEN rstrip(SubSeq(s, 1, Len(s) - 1)) ELSE s

\* main.py strips one leading separator only.
StripOneSlash(s) == IF startswith(s, <<SLASH>>) THEN Tail(s) ELSE s

\* str.upper() on the method keys a discovery document uses.
upper(k) ==
    CASE k = "get" -> "GET"
      [] k = "post" -> "POST"
      [] k = "patch" -> "PATCH"
      [] k = "delete" -> "DELETE"
      [] k = "put" -> "PUT"
      [] OTHER -> k

\* ------------------------------------------------------------ JSON values
JInt(n) == [kind |-> "int", num |-> n, den |-> 1]
JFloat(n, d) == [kind |-> "float", num |-> n, den |-> d]
JStr(s) == [kind |-> "str", text |-> s]
JBool(b) == [kind |-> "bool", b |-> b]
JList(s) == [kind |-> "list", text |-> s]
JDict(s) == [kind |-> "dict", text |-> s]
\* {key: value}
JWrap(k, v) == [kind |-> "dict", key |-> k, value |-> v]

isinstance_dict(v) == v.kind = "dict"

\* The data arguments of the model: what the user types after the endpoint.
DataTexts == {"50", "50.0", "7.5", ".5", "abc", "true", "[1]", "{\"level\": 7}"}

\* The texts json.loads accepts, and what it returns for each.
JsonTexts == {"50", "50.0", "7.5", "true", "[1]", "{\"level\": 7}"}

json_loads(raw) ==
    CASE raw = "50" -> JInt(50)
      [] raw = "50.0" -> JFloat(50, 1)
      [] raw = "7.5" -> JFloat(15, 2)
      [] raw = "true" -> JBool(TRUE)
      [] raw = "[1]" -> JList(raw)
      [] raw = "{\"level\": 7}" -> JDict(raw)

\* try: json.loads(args.data) except JSONDecodeError: args.data
LoadData(raw) == IF raw \in JsonTexts THEN json_loads(raw) ELSE JStr(raw)

\* The texts float() accepts, and the float it returns.
FloatTexts == {"50", "50.0", "7.5", ".5"}

float_of_text(s) ==
    CASE s = "50" -> JFloat(50, 1)
      [] s = "50.0" -> JFloat(50, 1)
      [] s = "7.5" -> JFloat(15, 2)
      [] s = ".5" -> JFloat(1, 2)

\* float(loaded): None when it raises.
float(v) ==
    CASE v.kind = "int" -> Some(JFloat(v.num, 1))
      [] v.kind = "float" -> Some(v)
      [] v.kind = "bool" -> Some(JFloat(IF v.b THEN 1 ELSE 0, 1))
      [] v.kind = "str" ->
            IF v.text \in FloatTexts THEN Some(float_of_text(v.text)) ELSE None
      [] OTHER -> None

is_integer(f) == f.num % f.den = 0

int(f) == JInt(f.num \div f.den)

\* A faulty variant of CoerceNumber: the float is kept, never narrowed to int.
CoerceNumberNoNarrow(loaded) ==
    LET value == float(loaded) IN IF value = None THEN loaded ELSE Get(value)

\* float(loaded), narrowed to int when it has no fractional part; the value
\* itself when float() raises.
CoerceNumber(loaded) ==
    LET value == float(loaded) IN
    IF value = None THEN loaded
    ELSE IF is_integer(Get(value)) THEN int(Get(value)) ELSE Get(value)

\* ------------------------------------------------- the discovery document
\* A JSON Schema: its "type" ("" when the key is absent), its "required"
\* list and the declared "type" of each of its "properties".
EmptySchema == [type |-> "", required |-> <<>>, properties |-> <<>>]
NumberSchema == [type |-> "number", required |-> <<>>, properties |-> <<>>]
ObjectSchema(required, properties) ==
    [type |-> "object", required |-> required, properties |-> properties]

Schemas ==
    { EmptySchema,
      NumberSchema,
      ObjectSchema(<<>>, [k \in {"level"} |-> "number"]),
      ObjectSchema(<<"level">>, [k \in {"level"} |-> "number"]),
      ObjectSchema(<<"level">>, [k \in {"level"} |-> "string"]),
      ObjectSchema(<<"level">>, <<>>),
      ObjectSchema(<<"level", "mute">>,
                   [k \in {"level", "mute"} |-> IF k = "level" THEN "number" ELSE "boolean"]) }

\* An operation object: "description" and "requestBody" may be absent; a
\* request body's "content" may lack "application/json", and the media
\* object may lack "schema".
Operation(description, requestBody) ==
    [description |-> description, requestBody |-> requestBody]
RequestBody(description, json) == [description |-> description, json |-> json]
Media(schema) == [schema |-> schema]

PlainOperation == Operation(None, None)
BodyOperations ==
    { Operation(Some(<<"S", "e", "t">>), Some(RequestBody(Some(<<"l", "v", "l">>), None))),
      Operation(None, Some(RequestBody(None, Some(Media(None))))) }
    \cup { Operation(None, Some(RequestBody(None, Some(Media(Some(s)))))) : s \in Schemas }

MethodEntry(key, details) == [key |-> key, details |-> details]

\* The method maps a path item of the model carries, in document order.
MethodMaps ==
    { <<>> }
    \cup { <<MethodEntry(k, PlainOperation)>> : k \in {"get", "post", "put", "delete"} }
    \cup { <<MethodEntry("post", d)>> : d \in BodyOperations }
    \cup { <<MethodEntry("patch", d)>> :
             d \in { Operation(None, Some(RequestBody(None, Some(Media(Some(s)))))) :
                       s \in { ObjectSchema(<<"level">>, [k \in {"level"} |-> "number"]),
                               ObjectSchema(<<>>, [k \in {"level"} |-> "number"]) } } }
    \cup { <<MethodEntry("put", PlainOperation), MethodEntry("get", PlainOperation)>>,
           <<MethodEntry("put", PlainOperation),
             MethodEntry("post", Operation(None, Some(RequestBody(None,
                 Some(Media(Some(ObjectSchema(<<"level">>,
                                              [k \in {"level"} |-> "number"]))))))))>> }

\* Documented paths: two under the prefix /a that name endpoint x, one
\* under another prefix, one ending in -info.
PathX == <<"/", "a", "/", "x">>
PathXX == <<"/", "a", "/", "/", "x">>
PathOther == <<"/", "b", "/", "x">>
PathInfo == <<"/", "a", "/", "x", "-", "i", "n", "f", "o">>

PathItem(path, methods) == [path |-> path, methods |-> methods]

PathItems ==
    { PathItem(p, m) : p \in {PathX, PathXX}, m \in MethodMaps }
    \cup { PathItem(p, <<MethodEntry("get", PlainOperation)>>) : p \in {PathOther, PathInfo} }

\* api_doc["paths"], in document order; a JSON object has no duplicate key.
Docs ==
    UNION { { d \in [1..n -> PathItems] :
                \A i, j \in 1..n : d[i].path = d[j].path => i = j } : n \in 0..MaxPaths }

\* ------------------------------------------------------------ Python dicts
\* A dict is a sequence of [key, value] entries in insertion order.
Keys(d) == { d[i].key : i \in 1..Len(d) }
Has(d, k) == k \in Keys(d)
Lookup(d, k) == (CHOOSE i \in 1..Len(d) : d[i].key = k)
Value(d, k) == d[Lookup(d, k)].value
\* d[k] = v: an existing key keeps its position.
Put(d, k, v) ==
    IF Has(d, k)
    THEN [d EXCEPT ![Lookup(d, k)] = [key |-> k, value |-> v]]
    ELSE Append(d, [key |-> k, value |-> v])

\* ------------------------------------------------------- API.fetch_api_doc
NoDescription == <<"n", "o", " ", "d", "e", "s", "c", "r", "i", "p", "t", "i", "o", "n">>

\* The methods whose requestBody is read: POST and PATCH in the package,
\* POST alone in the script.
BodyMethods(impl) == IF impl = "package" THEN {"POST", "PATCH"} ELSE {"POST"}

\* A faulty variant of PathSelected: paths ending in -info are kept.
PathSelectedWithInfo(path, api) == startswith(path, api)

\* A path is kept when it starts with the API prefix and does not end in -info.
PathSelected(path, api) == startswith(path, api) /\ ~endswith(path, InfoSuffix)

\* path[len(self.api):] with the leading separators stripped (all of them in
\* the package, one in the script).
EndpointName(path, api, impl) ==
    IF impl = "package"
    THEN lstrip(DropPrefix(path, Len(api)))
    ELSE StripOneSlash(DropPrefix(path, Len(api)))

\* content["application/json"].get("schema", {})
MediaSchema(media) == IF media.schema = None THEN EmptySchema ELSE Get(media.schema)

\* The catalog entry of one method of one path.
Descriptor(method, details, endpoint, impl) ==
    LET readBody == method \in BodyMethods(impl) /\ details.requestBody # None
        req_body == Get(details.requestBody)
    IN  [ description |->
            IF details.description = None THEN endpoint ELSE Get(details.description),
          data |->
            IF ~readBody THEN None
            ELSE IF req_body.description = None THEN Some(NoDescription)
            ELSE req_body.description,
          schema |->
            IF readBody /\ req_body.json # None
            THEN Some(MediaSchema(Get(req_body.json)))
            ELSE None ]

\* for method, details in methods.items(): endpoints[endpoint][method.upper()] = ...
RECURSIVE AddMethods(_, _, _, _)
AddMethods(known, methods, endpoint, impl) ==
    IF methods = <<>> THEN known
    ELSE LET method == upper(Head(methods).key)
         IN  AddMethods(Put(known, method,
                            Descriptor(method, Head(methods).details, endpoint, impl)),
                        Tail(methods), endpoint, impl)

\* for path, methods in paths.items(): ...
RECURSIVE AddPaths(_, _, _, _)
AddPaths(endpoints, paths, api, impl) ==
    IF paths = <<>> THEN endpoints
    ELSE IF ~PathSelected(Head(paths).path, api)
    THEN AddPaths(endpoints, Tail(paths), api, impl)
    ELSE LET endpoint == EndpointName(Head(paths).path, api, impl)
             known == IF Has(endpoints, endpoint) THEN Value(endpoints, endpoint) ELSE <<>>
         IN  AddPaths(Put(endpoints, endpoint,
                          AddMethods(known, Head(paths).methods, endpoint, impl)),
                      Tail(paths), api, impl)

\* A faulty variant of fetch_api_doc: the document is parsed whatever the status.
fetch_api_doc_any_status(status_code, api_doc, api, impl) ==
    AddPaths(<<>>, api_doc, api, impl)

\* The catalog fetch_api_doc returns for a response: {} unless the status
\* is 200.
fetch_api_doc(status_code, api_doc, api, impl) ==
    IF status_code # 200 THEN <<>> ELSE AddPaths(<<>>, api_doc, api, impl)

\* ------------------------------------------------------ the command line
\* parse_arguments: data needs an endpoint before it (both positional);
\* --delete with --patch is rejected; the script has neither flag.
EndpointX == <<"x">>

Args(impl) ==
    { a \in [ list : BOOLEAN,
              endpoint : {None, Some(EndpointX)},
              data : {None} \cup { Some(t) : t \in DataTexts },
              patch : BOOLEAN,
              delete : BOOLEAN ] :
        /\ ~(a.delete /\ a.patch)
        /\ a.endpoint = None => a.data = None
        /\ impl = "script" => ~a.delete /\ ~a.patch }

\* --api as typed; API.__init__ strips its trailing separators.
ApiArgs == { <<"/", "a">>, <<"/", "a", "/">>, <<"/">> }

\* A faulty variant of Truthy: `if x is not None:`.
TruthyNotNone(o) == o # None

\* `if x:` on an optional text.
Truthy(o) == o # None /\ Get(o) # <<>>

\* A faulty variant of determine_http_method: the data argument is looked at before
\* --patch.
determine_http_method_data_first(args, endpoints) ==
    IF args.delete THEN Some("DELETE")
    ELSE IF args.data # None THEN Some("POST")
    ELSE IF args.patch THEN Some("PATCH")
    ELSE IF ~Has(endpoints, Get(args.endpoint)) THEN Some("GET")
    ELSE LET methods == Value(endpoints, Get(args.endpoint))
         IN  IF Has(methods, "GET") THEN Some("GET")
             ELSE IF methods = <<>> THEN None
             ELSE Some(methods[1].key)

\* ---------------------------------------------------- determine_http_method
\* None when list(methods.keys())[0] raises IndexError.
determine_http_method(args, endpoints) ==
    IF args.delete THEN Some("DELETE")
    ELSE IF args.patch THEN Some("PATCH")
    ELSE IF args.data # None THEN Some("POST")
    ELSE IF ~Has(endpoints, Get(args.endpoint)) THEN Some("GET")
    ELSE LET methods == Value(endpoints, Get(args.endpoint))
         IN  IF Has(methods, "GET") THEN Some("GET")
             ELSE IF methods = <<>> THEN None
             ELSE Some(methods[1].key)

\* The script's inline method resolution.
ScriptMethod(args, endpoints) ==
    IF args.data # None THEN Some("POST")
    ELSE IF Has(endpoints, Get(args.endpoint))
    THEN LET methods == Value(endpoints, Get(args.endpoint))
         IN  IF Has(methods, "GET") THEN Some("GET")
             ELSE IF methods = <<>> THEN None
             ELSE Some(methods[1].key)
    ELSE Some("GET")

\* -------------------------------------------------------- process_post_data
\* properties.get(key, {}).get("type"): "" when absent.
PropertyType(schema, key) ==
    IF key \in DOMAIN schema.properties THEN schema.properties[key] ELSE ""

\* endpoints.get(args.endpoint, {}).get(http_method, {}).get("schema")
SchemaFor(endpoints, endpoint, http_method) ==
    IF ~Has(endpoints, endpoint) THEN None
    ELSE IF ~Has(Value(endpoints, endpoint), http_method) THEN None
    ELSE Value(Value(endpoints, endpoint), http_method).schema

\* What body construction yields: the body (None: no body), the message it
\* prints, whether it looked the schema up in the catalog, and how it ends
\* ("ok", "return": main returns, "KeyError": an uncaught exception).
Built(value, message, consulted, outcome) ==
    [value |-> value, message |-> message, consulted |-> consulted, outcome |-> outcome]

\* Lines 213-251: the body for a data argument under POST or PATCH.
BuildBody(http_method, args, endpoints) ==
    LET loaded == LoadData(Get(args.data))
        schema == SchemaFor(endpoints, Get(args.endpoint), http_method)
    IN  IF isinstance_dict(loaded) THEN Built(Some(loaded), None, FALSE, "ok")
        ELSE IF schema = None
        THEN Built(None, Some("No data schema"), TRUE, "ok")
        ELSE IF Get(schema).type # "object"
        THEN Built(Some(loaded), None, TRUE, "ok")
        ELSE IF Len(Get(schema).required) # 1
        THEN Built(None, Some("requires an object"), TRUE, "ok")
        ELSE LET key == Get(schema).required[1]
                 value == IF PropertyType(Get(schema), key) = "number"
                          THEN CoerceNumber(loaded)
                          ELSE loaded
             IN  Built(Some(JWrap(key, value)), None, TRUE, "ok")

\* A faulty variant of process_post_data: the method is not looked at.
process_post_data_any_method(http_method, args, endpoints) ==
    IF args.data = None THEN Built(None, None, FALSE, "ok")
    ELSE BuildBody(http_method, args, endpoints)

process_post_data(http_method, args, endpoints) ==
    IF http_method \notin {"POST", "PATCH"} THEN Built(None, None, FALSE, "ok")
    ELSE IF args.data = None THEN Built(None, None, FALSE, "ok")
    ELSE BuildBody(http_method, args, endpoints)

\* The script's inline body construction.
ScriptPostData(http_method, args, endpoints) ==
    IF ~(http_method = "POST" /\ args.data # None) THEN Built(None, None, FALSE, "ok")
    ELSE LET loaded == LoadData(Get(args.data))
             endpoint == Get(args.endpoint)
         IN  IF isinstance_dict(loaded) THEN Built(Some(loaded), None, FALSE, "ok")
             ELSE IF ~Has(endpoints, endpoint) \/ ~Has(Value(endpoints, endpoint), "POST")
             THEN Built(None, Some("No data schema"), TRUE, "return")
             ELSE LET schema == Value(Value(endpoints, endpoint), "POST").schema
                  IN  IF schema = None
                         \/ Get(schema).type # "object"
                         \/ Len(Get(schema).required) # 1
                      THEN Built(Some(loaded), None, TRUE, "ok")
                      ELSE LET key == Get(schema).required[1]
                           IN  IF key \notin DOMAIN Get(schema).properties
                               THEN Built(None, None, TRUE, "KeyError")
                               ELSE Built(Some(JWrap(key,
                                            IF Get(schema).properties[key] = "number"
                                            THEN CoerceNumber(loaded)
                                            ELSE loaded)),
                                          None, TRUE, "ok")

\* ------------------------------------------------------------------ state
VARIABLES
    impl,             \* "package" or "script"
    api,              \* self.api
    args,             \* the parsed command line
    pc,               \* where main is
    api_doc,          \* fetch_api_doc's response.json()["paths"], while it runs
    endpoints,        \* the catalog
    http_method,      \* the resolved method, None before resolution
    post_data,        \* the request body, None when there is none
    schema_consulted, \* body construction looked the schema up in the catalog
    token,            \* the access token, None when there is none
    trace,            \* the network calls issued and the responses received
    output,           \* what was printed
    error             \* the uncaught exception that ended the run, if any

vars == <<impl, api, args, pc, api_doc, endpoints, http_method, post_data,
          schema_consulted, token, trace, output, error>>

Call(op) == [ev |-> "call", op |-> op]
Response(op, status_code) == [ev |-> "response", op |-> op, status_code |-> status_code]
AuthResponseEvent(status_code, accessToken) ==
    [ev |-> "response", op |-> "auth", status_code |-> status_code,
     accessToken |-> accessToken]
\* requests.request(http_method, f"{server}{api}/{endpoint}", json=post_data)
RequestCall(method, endpoint, body) ==
    [ev |-> "call", op |-> "request", method |-> method, endpoint |-> endpoint,
     body |-> body]

DocStatuses == {200, 204, 404}
AuthStatuses == {200, 201, 401}
\* The "accessToken" of the auth response: absent, empty or a token.
AccessTokens == { None, Some(<<>>), Some(<<"t">>) }

Init ==
    /\ impl \in {"package", "script"}
    /\ \E raw \in ApiArgs : api = rstrip(raw)
    /\ args \in Args(impl)
    /\ pc = "start"
    /\ api_doc = None
    /\ endpoints = <<>>
    /\ http_method = None
    /\ post_data = None
    /\ schema_consulted = FALSE
    /\ token = None
    /\ trace = <<>>
    /\ output = <<>>
    /\ error = None

\* main: no --list and no endpoint: print the help text and return.
PrintHelp ==
    /\ pc = "start"
    /\ ~args.list
    /\ ~Truthy(args.endpoint)
    /\ output' = Append(output, "help")
    /\ pc' = "done"
    /\ UNCHANGED <<impl, api, args, api_doc, endpoints, http_method, post_data,
                   schema_consulted, token, trace, error>>

\* main with --list: fetch_api_doc issues GET {server}/doc.
ListFetch ==
    /\ pc = "start"
    /\ args.list
    /\ trace' = Append(trace, Call("doc"))
    /\ pc' = "list_fetch"
    /\ UNCHANGED <<impl, api, args, api_doc, endpoints, http_method, post_data,
                   schema_consulted, token, output, error>>

\* main with an endpoint: fetch_api_doc issues GET {server}/doc.
RunFetch ==
    /\ pc = "start"
    /\ ~args.list
    /\ Truthy(args.endpoint)
    /\ trace' = Append(trace, Call("doc"))
    /\ pc' = "run_fetch"
    /\ UNCHANGED <<impl, api, args, api_doc, endpoints, http_method, post_data,
                   schema_consulted, token, output, error>>

\* A faulty variant of DocResponse: a failed fetch is issued again.
DocResponseRetry ==
    /\ pc \in {"list_fetch", "run_fetch"}
    /\ \E status_code \in DocStatuses, doc \in Docs :
          /\ trace' = IF status_code = 200
                       THEN Append(trace, Response("doc", status_code))
                       ELSE trace \o <<Response("doc", status_code), Call("doc")>>
          /\ api_doc' = IF status_code = 200 THEN Some(doc) ELSE None
          /\ endpoints' = fetch_api_doc(status_code, doc, api, impl)
          /\ output' = IF status_code = 200 THEN output
                       ELSE Append(output, "Request failed")
          /\ pc' = IF status_code # 200 THEN pc
                   ELSE IF pc = "list_fetch" THEN "list_fetched" ELSE "run_fetched"
    /\ UNCHANGED <<impl, api, args, http_method, post_data, schema_consulted,
                   token, error>>

\* fetch_api_doc once the response is there: the catalog it returns.
DocResponse ==
    /\ pc \in {"list_fetch", "run_fetch"}
    /\ \E status_code \in DocStatuses, doc \in Docs :
          /\ trace' = Append(trace, Response("doc", status_code))
          /\ api_doc' = IF status_code = 200 THEN Some(doc) ELSE None
          /\ endpoints' = fetch_api_doc(status_code, doc, api, impl)
          /\ output' = IF status_code = 200 THEN output
                       ELSE Append(output, "Request failed")
    /\ pc' = IF pc = "list_fetch" THEN "list_fetched" ELSE "run_fetched"
    /\ UNCHANGED <<impl, api, args, http_method, post_data, schema_consulted,
                   token, error>>

\* A faulty variant of ListEndpoints: main does not return after the listing.
ListEndpointsFallThrough ==
    /\ pc = "list_fetched"
    /\ output' = Append(output, IF endpoints = <<>> THEN "No endpoints found!"
                                ELSE "Available API endpoints:")
    /\ api_doc' = None
    /\ IF Truthy(args.endpoint)
       THEN pc' = "run_fetch" /\ trace' = Append(trace, Call("doc"))
       ELSE pc' = "done" /\ trace' = trace
    /\ UNCHANGED <<impl, api, args, endpoints, http_method, post_data,
                   schema_consulted, token, error>>

\* display_endpoints, then main returns.
ListEndpoints ==
    /\ pc = "list_fetched"
    /\ output' = Append(output, IF endpoints = <<>> THEN "No endpoints found!"
                                ELSE "Available API endpoints:")
    /\ api_doc' = None
    /\ pc' = "done"
    /\ UNCHANGED <<impl, api, args, endpoints, http_method, post_data,
                   schema_consulted, token, trace, error>>

\* What main does between the catalog and the authentication call, given the
\* resolved method (None: IndexError) and the body construction's result.
Prepare(method, built) ==
    /\ api_doc' = None
    /\ http_method' = method
    /\ IF method = None
       THEN /\ error' = Some("IndexError")
            /\ pc' = "crashed"
            /\ UNCHANGED <<post_data, schema_consulted, output, trace>>
       ELSE /\ post_data' = built.value
            /\ schema_consulted' = built.consulted
            /\ output' = IF built.message = None THEN output
                         ELSE Append(output, Get(built.message))
            /\ IF built.outcome = "ok"
               THEN /\ trace' = Append(trace, Call("auth"))
                    /\ pc' = "auth"
                    /\ error' = error
               ELSE IF built.outcome = "return"
               THEN /\ pc' = "done"
                    /\ UNCHANGED <<trace, error>>
               ELSE /\ pc' = "crashed"
                    /\ error' = Some(built.outcome)
                    /\ trace' = trace
    /\ UNCHANGED <<impl, api, args, endpoints, token>>

\* Package main: determine_http_method, process_post_data, then
\* authenticate issues POST {server}/auth/{username}.
Resolve ==
    /\ pc = "run_fetched"
    /\ impl = "package"
    /\ LET method == determine_http_method(args, endpoints)
       IN  Prepare(method,
                   IF method = None THEN Built(None, None, FALSE, "ok")
                   ELSE process_post_data(Get(method), args, endpoints))

\* Script main: the inline method resolution and body construction, then
\* authenticate issues POST {server}/auth/{username}.
ScriptResolve ==
    /\ pc = "run_fetched"
    /\ impl = "script"
    /\ LET method == ScriptMethod(args, endpoints)
       IN  Prepare(method,
                   IF method = None THEN Built(None, None, FALSE, "ok")
                   ELSE ScriptPostData(Get(method), args, endpoints))

\* authenticate once the response is there; with a token, make_request
\* issues the request.
AuthResponse ==
    /\ pc = "auth"
    /\ \E status_code \in AuthStatuses, accessToken \in AccessTokens :
          LET got == IF status_code # 200 THEN None ELSE accessToken
          IN  /\ token' = got
              /\ output' = IF status_code = 200 THEN output
                           ELSE Append(output, "Request failed")
              /\ IF Truthy(got)
                 THEN /\ trace' = trace \o
                           << AuthResponseEvent(status_code, accessToken),
                              RequestCall(Get(http_method), Get(args.endpoint), post_data) >>
                      /\ pc' = "request"
                 ELSE /\ trace' = Append(trace, AuthResponseEvent(status_code, accessToken))
                      /\ pc' = "done"
    /\ UNCHANGED <<impl, api, args, api_doc, endpoints, http_method, post_data,
                   schema_consulted, error>>

\* make_request once the response is there.
RequestResponse ==
    /\ pc = "request"
    /\ \E ok \in BOOLEAN :
          /\ trace' = Append(trace, Response("request", IF ok THEN 200 ELSE 500))
          /\ output' = IF ok THEN output ELSE Append(output, "Request failed")
    /\ pc' = "done"
    /\ UNCHANGED <<impl, api, args, api_doc, endpoints, http_method, post_data,
                   schema_consulted, token, error>>

\* requests raises (no connection), or response.json() does: nothing
\* catches it.
Raise ==
    /\ pc \in {"list_fetch", "run_fetch", "auth", "request"}
    /\ error' = Some("RequestException")
    /\ pc' = "crashed"
    /\ UNCHANGED <<impl, api, args, api_doc, endpoints, http_method, post_data,
                   schema_consulted, token, trace, output>>

Next ==
    \/ PrintHelp
    \/ ListFetch
    \/ RunFetch
    \/ DocResponse
    \/ ListEndpoints
    \/ Resolve
    \/ ScriptResolve
    \/ AuthResponse
    \/ RequestResponse
    \/ Raise

Spec == Init /\ [][Next]_vars

\* ----------------------------------------------------------------- claims
CallsOf(op) == { i \in DOMAIN trace : trace[i].ev = "call" /\ trace[i].op = op }
ResponsesOf(op) == { i \in DOMAIN trace : trace[i].ev = "response" /\ trace[i].op = op }

\* The auth response at position i carries no token: a status other than
\* 200, or no accessToken, or an empty one.
NoTokenIn(i) ==
    \/ trace[i].status_code # 200
    \/ trace[i].accessToken = None
    \/ trace[i].accessToken = Some(<<>>)

\* C1: when authentication yields no token (a status other than 200, or a 200
\* answer with no or an empty accessToken), the main request is never
\* dispatched in that run.
C1_NoTokenNoRequest ==
    \A i \in ResponsesOf("auth") : NoTokenIn(i) => CallsOf("request") = {}

C1_Witness ==
    /\ pc = "done"
    /\ \E i \in ResponsesOf("auth") :
          trace[i].status_code = 200 /\ trace[i].accessToken = Some(<<>>)
    /\ CallsOf("request") = {}

\* The method is POST or PATCH, the data argument is not a JSON object, and
\* body construction aborts: no schema for (endpoint, method), or an object
\* schema whose required list does not have exactly one entry.
BodyAborted ==
    /\ impl = "package"
    /\ http_method \in {Some("POST"), Some("PATCH")}
    /\ args.data # None
    /\ ~isinstance_dict(LoadData(Get(args.data)))
    /\ LET schema == SchemaFor(endpoints, Get(args.endpoint), Get(http_method))
       IN  \/ schema = None
           \/ Get(schema).type = "object" /\ Len(Get(schema).required) # 1

\* C2: when body construction aborts, the message is reported and no main
\* request is dispatched in that run.
C2_AbortedBodyNoRequest ==
    BodyAborted =>
        /\ \E i \in DOMAIN output : output[i] \in {"No data schema", "requires an object"}
        /\ CallsOf("request") = {}

\* C3: in a run that names an endpoint the network calls are document fetch,
\* authentication, dispatch, each issued at most once; authentication is not
\* issued before the document fetch has returned, and dispatch is not issued
\* before authentication has returned a token.
C3_SequentialCalls ==
    Truthy(args.endpoint) =>
        /\ \A op \in {"doc", "auth", "request"} : Cardinality(CallsOf(op)) <= 1
        /\ \A i \in CallsOf("auth") : \E j \in ResponsesOf("doc") : j < i
        /\ \A i \in CallsOf("request") :
              \E j \in ResponsesOf("auth") : j < i /\ ~NoTokenIn(j)
        /\ \A i \in CallsOf("doc") : \A j \in CallsOf("auth") \cup CallsOf("request") : i < j
        /\ \A i \in CallsOf("auth") : \A j \in CallsOf("request") : i < j

C3_Witness ==
    /\ pc = "done"
    /\ ~args.list
    /\ \A op \in {"doc", "auth", "request"} : Cardinality(CallsOf(op)) = 1
    /\ ResponsesOf("request") # {}

\* C10: a run with --list issues exactly one network call, the document
\* fetch, and ends without authenticating or dispatching, whatever else is
\* on the command line; a run with neither --list nor an endpoint issues no
\* network call.
C10_ListOnlyFetches ==
    /\ args.list =>
          /\ CallsOf("auth") = {}
          /\ CallsOf("request") = {}
          /\ Cardinality(CallsOf("doc")) <= 1
          /\ pc \notin {"run_fetch", "run_fetched", "auth", "request"}
          /\ pc = "done" => Cardinality(CallsOf("doc")) = 1
    /\ (~args.list /\ ~Truthy(args.endpoint)) => trace = <<>>

C10_Witness ==
    /\ args.list
    /\ args.delete
    /\ args.data # None
    /\ pc = "done"
    /\ Cardinality(CallsOf("doc")) = 1

\* The document fetch answered with a status other than 200.
DocFailed == \E i \in ResponsesOf("doc") : trace[i].status_code # 200

\* C4: when GET {server}/doc answers with a status other than 200,
\* fetch_api_doc returns the empty catalog and the run goes on: the method is
\* resolved, authentication is issued and, given a token, the request is
\* dispatched; with no data argument and no --patch/--delete the method is GET.
C4_DocFailureDegrades ==
    DocFailed =>
        /\ endpoints = <<>>
        /\ (impl = "package" /\ ~args.list) =>
              /\ error \notin {Some("IndexError"), Some("KeyError")}
              /\ pc # "run_fetched" => http_method # None /\ CallsOf("auth") # {}
              /\ Truthy(token) => CallsOf("request") # {}
              /\ (args.data = None /\ ~args.patch /\ ~args.delete) =>
                    /\ http_method \in {None, Some("GET")}
                    /\ \A i \in CallsOf("request") : trace[i].method = "GET"

C4_Witness ==
    /\ DocFailed
    /\ impl = "package"
    /\ pc = "done"
    /\ \E i \in CallsOf("request") : trace[i].method = "GET"

\* determine_http_method has run.
Resolved == impl = "package" /\ (http_method # None \/ error = Some("IndexError"))

NoFlagsNoData == ~args.delete /\ ~args.patch /\ args.data = None

Slashes(n) == [i \in 1..n |-> SLASH]

\* name is path with the prefix removed and the leading separator stripped,
\* and path is under the prefix and does not end in -info.
DerivedFrom(name, path) ==
    /\ startswith(path, api)
    /\ ~endswith(path, InfoSuffix)
    /\ \E n \in 0..Len(path) :
          /\ path = api \o Slashes(n) \o name
          /\ n = 0 => ~startswith(name, <<SLASH>>)
          /\ impl = "package" => ~startswith(name, <<SLASH>>)
          /\ impl = "script" => n <= 1

\* C6: the catalog fetch_api_doc returns holds no endpoint derived from a
\* path outside the API prefix or from a path ending in -info: every endpoint
\* name, and every method under it, comes from a documented path under the
\* prefix, not ending in -info, with the prefix removed and the leading
\* separator stripped.
C6_CatalogFromSelectedPaths ==
    api_doc # None =>
        LET doc == Get(api_doc) IN
        \A i \in DOMAIN endpoints :
            /\ \E p \in DOMAIN doc : DerivedFrom(endpoints[i].key, doc[p].path)
            /\ \A m \in DOMAIN endpoints[i].value :
                  \E p \in DOMAIN doc :
                      /\ DerivedFrom(endpoints[i].key, doc[p].path)
                      /\ \E k \in DOMAIN doc[p].methods :
                            upper(doc[p].methods[k].key) = endpoints[i].value[m].key

C6_Witness ==
    /\ api_doc # None
    /\ \E p \in DOMAIN Get(api_doc) : Get(api_doc)[p].path = PathInfo
    /\ \E p \in DOMAIN Get(api_doc) : Get(api_doc)[p].path = PathXX
    /\ Len(endpoints) = 1
    /\ endpoints[1].key = EndpointX

\* The data argument is not a JSON object and the schema for (endpoint,
\* method) is an object schema with exactly one required property.
SingleRequired ==
    /\ impl = "package"
    /\ http_method \in {Some("POST"), Some("PATCH")}
    /\ args.data # None
    /\ ~isinstance_dict(LoadData(Get(args.data)))
    /\ LET schema == SchemaFor(endpoints, Get(args.endpoint), Get(http_method))
       IN  /\ schema # None
           /\ Get(schema).type = "object"
           /\ Len(Get(schema).required) = 1

\* The value that is wrapped. Under a number property: the integer for a
\* data argument that is a number with no fractional part (true counts as
\* 1), the float for one with a fractional part, the loaded value when it
\* does not parse as a number. Under any other property: the loaded value.
WrappedValue(raw, type) ==
    IF type # "number" THEN LoadData(raw)
    ELSE CASE raw \in {"50", "50.0"} -> JInt(50)
           [] raw = "true" -> JInt(1)
           [] raw = "7.5" -> JFloat(15, 2)
           [] raw = ".5" -> JFloat(1, 2)
           [] raw \in {"abc", "[1]"} -> LoadData(raw)

\* C7: with a data argument that is not a JSON object and an object schema
\* with exactly one required property, the body sent maps that property to
\* the value: the integer when the property is a number and the value has no
\* fractional part (data 50, required level: {"level": 50}), the value
\* unchanged when it does not parse as a number.
C7_SingleRequiredWraps ==
    SingleRequired =>
        LET schema == Get(SchemaFor(endpoints, Get(args.endpoint), Get(http_method)))
            key == schema.required[1]
            type == IF key \in DOMAIN schema.properties THEN schema.properties[key] ELSE ""
        IN  /\ post_data = Some(JWrap(key, WrappedValue(Get(args.data), type)))
            /\ \A i \in CallsOf("request") : trace[i].body = post_data

C7_Witness ==
    /\ SingleRequired
    /\ args.data = Some("50")
    /\ \E i \in CallsOf("request") : trace[i].body = Some(JWrap("level", JInt(50)))

FourMethods == {"GET", "POST", "PATCH", "DELETE"}

\* C8: the method resolved and dispatched is one of GET, POST, PATCH, DELETE,
\* and method resolution yields a method for every endpoint of the catalog.
C8_MethodOneOfFour ==
    /\ http_method # None => Get(http_method) \in FourMethods
    /\ \A i \in CallsOf("request") : trace[i].method \in FourMethods
    /\ error # Some("IndexError")

\* C9: a dispatched request carries a body only if its method is POST or
\* PATCH and a data argument was supplied; with GET or DELETE, or without a
\* data argument, there is no body and the catalog is not consulted for a
\* schema.
C9_BodyOnlyForPostPatchData ==
    /\ \A i \in CallsOf("request") :
          /\ trace[i].body = post_data
          /\ trace[i].body # None =>
                trace[i].method \in {"POST", "PATCH"} /\ args.data # None
    /\ (http_method # None /\ (Get(http_method) \notin {"POST", "PATCH"} \/ args.data = None)) =>
          post_data = None /\ ~schema_consulted

C9_Witness ==
    /\ args.data # None
    /\ args.delete
    /\ \E i \in CallsOf("request") : trace[i].method = "DELETE" /\ trace[i].body = None

====
